---- MODULE Spec2Model ----
(***************************************************************************)
(* Model of the rule evaluation core of markdownlint (lib/rules.js): the   *)
(* shared traversals forEachLine, forEachHeading and flattenLists and the  *)
(* rules built on them.  A line of text is a sequence of one-character     *)
(* strings; a token is a record with the fields rules.js reads (type,      *)
(* lines, line, lineNumber, hLevel, content).  A missing property (a       *)
(* token without "lines", a null "current") is the value Null.  A rule is  *)
(* a pure function of params and options: it returns the array of line     *)
(* numbers it pushed and whether it threw a TypeError.                      *)
(***************************************************************************)
EXTENDS Integers, Sequences, FiniteSets, TLC

VARIABLES params, options, rule, errors, raised, lists, calls

vars == <<params, options, rule, errors, raised, lists, calls>>

\* ------------------------------------------------------------------ bounds
\* longest line array
MaxLines == 4
\* most code_block tokens of a token list
MaxBlocks == 1
\* most list items of a document of the list rules
MaxItems == 3
\* most list items of a document flattenLists is called on
MaxFlattenItems == 5
\* deepest nesting of a list item of such a document
MaxDepth == 2
\* most blocks (headings and paragraphs) of a document of the heading rules
MaxHeadingBlocks == 3
\* most tokens of a degenerate token list
MaxDegenerateTokens == 4

\* ------------------------------------------------------------ characters
\* null and undefined: a value is held as <<v>>, its absence as <<>>
Null == <<>>

\* The backtick character (a string literal cannot hold one)
BackTick == "BT"

\* \s of a JavaScript regular expression, on the characters the model uses
IsSpace(c) == c \in {" ", "\t"}

\* String.prototype.trimLeft: the line without its leading whitespace
RECURSIVE trimLeft(_)
trimLeft(s) ==
  IF s = <<>> THEN <<>>
  ELSE IF IsSpace(Head(s)) THEN trimLeft(Tail(s)) ELSE s

\* the line without its trailing whitespace
RECURSIVE trimRight(_)
trimRight(s) ==
  IF s = <<>> THEN <<>>
  ELSE IF IsSpace(s[Len(s)]) THEN trimRight(SubSeq(s, 1, Len(s) - 1)) ELSE s

\* String.prototype.trim
trim(s) == trimRight(trimLeft(s))

\* s.substr(0, n)
substr0(s, n) == SubSeq(s, 1, IF n < Len(s) THEN n ELSE Len(s))

StartsWith(s, p) == Len(s) >= Len(p) /\ SubSeq(s, 1, Len(p)) = p

\* ----------------------------------------------------------------- tokens
Tok(type, lines_, line, hLevel, content) ==
  [type |-> type, lines |-> lines_, line |-> line,
   lineNumber |-> IF lines_ = Null THEN 0 ELSE lines_[1] + 1,
   hLevel |-> hLevel, content |-> content]

indentFor(token) == Len(token.line) - Len(trimLeft(token.line))

filterTokens(tokens, typeA, typeB) ==
  SelectSeq(tokens, LAMBDA token: token.type = typeA \/ token.type = typeB)

\* ------------------------------------------------------------ forEachLine
\* the fence delimiter test of forEachLine: three backticks or three tildes
\* at the start of the line
onFenceRe(line) ==
  \/ StartsWith(line, <<BackTick, BackTick, BackTick>>)
  \/ StartsWith(line, <<"~", "~", "~">>)

\* the line indexes (0-based) pushed to codeLines
codeLinesOf(tokens) ==
  LET blocks == filterTokens(tokens, "code_block", "code_block")
  IN UNION {{i \in blocks[k].lines[1] .. blocks[k].lines[2] - 1 : TRUE} :
            k \in DOMAIN blocks}

\* inFence after the callback for the line at 1-based position n
RECURSIVE inFenceAt(_, _)
inFenceAt(lines_, n) ==
  IF n = 0 THEN FALSE
  ELSE IF onFenceRe(lines_[n]) THEN ~inFenceAt(lines_, n - 1)
       ELSE inFenceAt(lines_, n - 1)

\* forEachLine classifying a line by the fence state before its own toggle
forEachLine_beforeToggle(p) ==
  LET codeLines == codeLinesOf(p.tokens)
  IN [n \in 1 .. Len(p.lines) |->
        [line |-> p.lines[n], lineIndex |-> n - 1,
         inCode |-> inFenceAt(p.lines, n - 1) \/ (n - 1) \in codeLines,
         onFence |-> onFenceRe(p.lines[n])]]

\* The calls of callback(line, lineIndex, inCode, onFence), in order
forEachLine(p) ==
  LET codeLines == codeLinesOf(p.tokens)
  IN [n \in 1 .. Len(p.lines) |->
        [line |-> p.lines[n], lineIndex |-> n - 1,
         inCode |-> inFenceAt(p.lines, n) \/ (n - 1) \in codeLines,
         onFence |-> onFenceRe(p.lines[n])]]

\* ------------------------------------------------------------------ MD012
RECURSIVE MD012Loop(_, _, _, _)
MD012Loop(cs, n, prevLine, errs) ==
  IF n > Len(cs) THEN errs
  ELSE LET line == trim(cs[n].line)
           hit == ~cs[n].inCode /\ Len(line) = 0 /\ Len(prevLine) = 0
       IN MD012Loop(cs, n + 1, line,
                    IF hit THEN Append(errs, cs[n].lineIndex + 1) ELSE errs)

\* MD012 counting blank lines in disjoint pairs: a reported line starts afresh
RECURSIVE MD012Loop_pairs(_, _, _, _)
MD012Loop_pairs(cs, n, prevLine, errs) ==
  IF n > Len(cs) THEN errs
  ELSE LET line == trim(cs[n].line)
           hit == ~cs[n].inCode /\ Len(line) = 0 /\ Len(prevLine) = 0
       IN MD012Loop_pairs(cs, n + 1, IF hit THEN <<"-">> ELSE line,
                    IF hit THEN Append(errs, cs[n].lineIndex + 1) ELSE errs)

MD012func_pairs(p) == MD012Loop_pairs(forEachLine(p), 1, <<"-">>, <<>>)

MD012func(p) == MD012Loop(forEachLine(p), 1, <<"-">>, <<>>)

\* ------------------------------------------------------------------ MD031
\* MD031 judging an opening fence by the next line and a closing fence by the
\* previous one
MD031Hit_swapped(p, c) ==
  /\ c.onFence
  /\ \/ /\ ~c.inCode
        /\ c.lineIndex - 1 >= 0
        /\ Len(p.lines[c.lineIndex]) # 0
     \/ /\ c.inCode
        /\ c.lineIndex + 1 < Len(p.lines)
        /\ Len(p.lines[c.lineIndex + 2]) # 0

MD031Hit(p, c) ==
  /\ c.onFence
  /\ \/ /\ c.inCode
        /\ c.lineIndex - 1 >= 0
        /\ Len(p.lines[c.lineIndex]) # 0
     \/ /\ ~c.inCode
        /\ c.lineIndex + 1 < Len(p.lines)
        /\ Len(p.lines[c.lineIndex + 2]) # 0

RECURSIVE MD031Loop(_, _, _, _)
MD031Loop(p, cs, n, errs) ==
  IF n > Len(cs) THEN errs
  ELSE MD031Loop(p, cs, n + 1,
                 IF MD031Hit(p, cs[n]) THEN Append(errs, cs[n].lineIndex + 1)
                 ELSE errs)

MD031func(p) == MD031Loop(p, forEachLine(p), 1, <<>>)

\* ---------------------------------------------------------- flattenLists
IsListOpen(token) ==
  token.type = "bullet_list_open" \/ token.type = "ordered_list_open"

IsListClose(token) ==
  token.type = "bullet_list_close" \/ token.type = "ordered_list_close"

\* lists.push(item) in place of the splice
splice_push(arr, insert, item) == Append(arr, item)

\* lists.splice(insert, 0, item)
splice(arr, insert, item) ==
  LET at == IF insert > Len(arr) THEN Len(arr) ELSE insert
  IN SubSeq(arr, 1, at) \o <<item>> \o SubSeq(arr, at + 1, Len(arr))

\* current once "insert" is deleted from it
Descriptor(cur) ==
  [ordered |-> cur.ordered, open |-> cur.open, items |-> cur.items,
   nesting |-> cur.nesting, lastLineIndex |-> cur.lastLineIndex]

\* (filterBy === undefined) || (filterBy === current.ordered), for filterBy
\* Null (undefined), <<TRUE>> or <<FALSE>>
Keeps(filterBy, ordered) ==
  IF filterBy = Null THEN TRUE ELSE filterBy[1] = ordered

\* the context of a list whose insert is its nesting depth
newContext_insertAtNesting(token, stack, lists_) ==
  [ordered |-> token.type = "ordered_list_open", open |-> token,
   items |-> <<>>, nesting |-> Len(stack) - 1, lastLineIndex |-> -1,
   insert |-> Len(stack) - 1]

\* current = {...} of a list open token, stack being the stack after the push
newContext(token, stack, lists_) ==
  [ordered |-> token.type = "ordered_list_open", open |-> token,
   items |-> <<>>, nesting |-> Len(stack) - 1, lastLineIndex |-> -1,
   insert |-> Len(lists_)]

\* forToken of flattenLists: one step of the loop over the tokens.  st.raised
\* is set where the code reads a property of null or undefined.
forToken(st, token, filterBy) ==
  IF st.raised THEN st
  ELSE IF IsListOpen(token) THEN
    [st EXCEPT
       !.stack = Append(st.stack, st.current),
       !.current = <<newContext(token, Append(st.stack, st.current), st.lists)>>]
  ELSE IF IsListClose(token) THEN
    IF st.current = Null \/ st.lastWithLines = Null
    THEN [st EXCEPT !.raised = TRUE]
    ELSE LET cur == [st.current[1] EXCEPT
                       !.lastLineIndex = st.lastWithLines[1].lines[2]]
         IN [st EXCEPT
               !.lists = IF Keeps(filterBy, cur.ordered)
                         THEN splice(st.lists, cur.insert, Descriptor(cur))
                         ELSE st.lists,
               !.current = IF st.stack = <<>> THEN Null
                           ELSE st.stack[Len(st.stack)],
               !.stack = IF st.stack = <<>> THEN <<>>
                         ELSE SubSeq(st.stack, 1, Len(st.stack) - 1)]
  ELSE IF token.type = "list_item_open" THEN
    IF st.current = Null THEN [st EXCEPT !.raised = TRUE]
    ELSE [st EXCEPT !.current[1].items = Append(@, token)]
  ELSE IF token.lines # Null THEN [st EXCEPT !.lastWithLines = <<token>>]
  ELSE st

RECURSIVE flattenLoop(_, _, _, _)
flattenLoop(tokens, n, st, filterBy) ==
  IF n > Len(tokens) THEN st
  ELSE flattenLoop(tokens, n + 1, forToken(st, tokens[n], filterBy), filterBy)

\* flattenLists(tokens, filterBy): [lists, raised]
flattenLists(tokens, filterBy) ==
  LET st == flattenLoop(tokens, 1,
                        [lists |-> <<>>, stack |-> <<>>, current |-> Null,
                         lastWithLines |-> Null, raised |-> FALSE],
                        filterBy)
  IN [lists |-> st.lists, raised |-> st.raised]

\* params.options.<name> || <default>
optionOr(opts, name, default) ==
  IF opts[name] = Null THEN default ELSE opts[name][1]

\* the line numbers of items, in order
lineNumbersOf(items) == [k \in DOMAIN items |-> items[k].lineNumber]

\* ------------------------------------------------------------------ MD004
unorderedListStyleFor(token) ==
  LET c == substr0(trimLeft(token.line), 1)
  IN IF c = <<"-">> THEN "dash"
     ELSE IF c = <<"+">> THEN "plus"
     ELSE "asterisk"

RECURSIVE MD004Loop_perList(_, _, _, _)
MD004Loop_perList(ls, n, style, errs) ==
  IF n > Len(ls) THEN [errors |-> errs, raised |-> FALSE]
  ELSE IF style = "consistent" /\ ls[n].items = <<>>
       THEN [errors |-> errs, raised |-> TRUE]
  ELSE LET style2 == IF style = "consistent"
                     THEN unorderedListStyleFor(ls[n].items[1]) ELSE style
           bad == SelectSeq(ls[n].items,
                            LAMBDA item : unorderedListStyleFor(item) # style2)
       IN MD004Loop_perList(ls, n + 1, style, errs \o lineNumbersOf(bad))

\* forList of MD004: style is the variable of the enclosing function
RECURSIVE MD004Loop(_, _, _, _)
MD004Loop(ls, n, style, errs) ==
  IF n > Len(ls) THEN [errors |-> errs, raised |-> FALSE]
  ELSE IF style = "consistent" /\ ls[n].items = <<>>
       THEN [errors |-> errs, raised |-> TRUE]
  ELSE LET style2 == IF style = "consistent"
                     THEN unorderedListStyleFor(ls[n].items[1]) ELSE style
           bad == SelectSeq(ls[n].items,
                            LAMBDA item : unorderedListStyleFor(item) # style2)
       IN MD004Loop(ls, n + 1, style2, errs \o lineNumbersOf(bad))

MD004func(p, opts) ==
  LET fl == flattenLists(p.tokens, <<FALSE>>)
  IN IF fl.raised THEN [errors |-> <<>>, raised |-> TRUE]
     ELSE MD004Loop(fl.lists, 1, optionOr(opts, "style", "consistent"), <<>>)

\* ------------------------------------------------------------------ MD005
RECURSIVE MD005Loop(_, _, _)
MD005Loop(ls, n, errs) ==
  IF n > Len(ls) THEN [errors |-> errs, raised |-> FALSE]
  ELSE IF ls[n].items = <<>> THEN [errors |-> errs, raised |-> TRUE]
  ELSE LET indent == indentFor(ls[n].items[1])
           bad == SelectSeq(ls[n].items, LAMBDA item : indentFor(item) # indent)
       IN MD005Loop(ls, n + 1, errs \o lineNumbersOf(bad))

MD005func(p) ==
  LET fl == flattenLists(p.tokens, Null)
  IN IF fl.raised THEN [errors |-> <<>>, raised |-> TRUE]
     ELSE MD005Loop(fl.lists, 1, <<>>)

\* ------------------------------------------------------------------ MD006
RECURSIVE MD006Loop(_, _, _)
MD006Loop(ls, n, errs) ==
  IF n > Len(ls) THEN [errors |-> errs, raised |-> FALSE]
  ELSE MD006Loop(ls, n + 1,
         IF ls[n].nesting = 0 /\ indentFor(ls[n].open) # 0
         THEN Append(errs, ls[n].open.lineNumber) ELSE errs)

MD006func(p) ==
  LET fl == flattenLists(p.tokens, <<FALSE>>)
  IN IF fl.raised THEN [errors |-> <<>>, raised |-> TRUE]
     ELSE MD006Loop(fl.lists, 1, <<>>)

\* ------------------------------------------------------------------ MD007
RECURSIVE MD007Loop(_, _, _, _, _)
MD007Loop(ls, n, optionsIndent, prevIndent, errs) ==
  IF n > Len(ls) THEN [errors |-> errs, raised |-> FALSE]
  ELSE LET indent == indentFor(ls[n].open)
       IN MD007Loop(ls, n + 1, optionsIndent, indent,
            IF indent > prevIndent /\ indent - prevIndent # optionsIndent
            THEN Append(errs, ls[n].open.lineNumber) ELSE errs)

MD007func(p, opts) ==
  LET fl == flattenLists(p.tokens, <<FALSE>>)
  IN IF fl.raised THEN [errors |-> <<>>, raised |-> TRUE]
     ELSE MD007Loop(fl.lists, 1, optionOr(opts, "indent", 2), 0, <<>>)

\* ------------------------------------------------------------------ MD029
Digit(d) == <<"0", "1", "2", "3", "4", "5", "6", "7", "8", "9">>[d + 1]

\* String(number)
RECURSIVE String(_)
String(number) ==
  IF number < 10 THEN <<Digit(number)>>
  ELSE String(number \div 10) \o <<Digit(number % 10)>>

\* new RegExp("^\\s*" + String(number) + "\\. ").test(line)
prefixRe(number, line) ==
  StartsWith(trimLeft(line), String(number) \o <<".", " ">>)

\* forItem of MD029 over the items from position n on, numbering from number
RECURSIVE MD029Items(_, _, _, _)
MD029Items(items, n, number, style) ==
  IF n > Len(items) THEN <<>>
  ELSE (IF ~prefixRe(number, items[n].line)
        THEN <<items[n].lineNumber>> ELSE <<>>)
       \o MD029Items(items, n + 1,
                     IF style = "ordered" THEN number + 1 ELSE number, style)

RECURSIVE MD029Loop(_, _, _, _)
MD029Loop(ls, n, style, errs) ==
  IF n > Len(ls) THEN [errors |-> errs, raised |-> FALSE]
  ELSE MD029Loop(ls, n + 1, style,
                 errs \o MD029Items(ls[n].items, 1, 1, style))

\* MD029 with the running number declared outside forList: it is not reset to
\* 1 for the next list
RECURSIVE MD029Loop_sharedNumber(_, _, _, _, _)
MD029Loop_sharedNumber(ls, n, number, style, errs) ==
  IF n > Len(ls) THEN [errors |-> errs, raised |-> FALSE]
  ELSE MD029Loop_sharedNumber(ls, n + 1,
         IF style = "ordered" THEN number + Len(ls[n].items) ELSE number,
         style, errs \o MD029Items(ls[n].items, 1, number, style))

MD029func_sharedNumber(p, opts) ==
  LET fl == flattenLists(p.tokens, <<TRUE>>)
  IN IF fl.raised THEN [errors |-> <<>>, raised |-> TRUE]
     ELSE MD029Loop_sharedNumber(fl.lists, 1, 1,
                                 optionOr(opts, "style", "one"), <<>>)

MD029func(p, opts) ==
  LET fl == flattenLists(p.tokens, <<TRUE>>)
  IN IF fl.raised THEN [errors |-> <<>>, raised |-> TRUE]
     ELSE MD029Loop(fl.lists, 1, optionOr(opts, "style", "one"), <<>>)

\* ------------------------------------------------------------------ MD030
\* the length of the leading run of whitespace, and of non-whitespace
RECURSIVE SpaceRun(_)
SpaceRun(s) == IF s = <<>> \/ ~IsSpace(Head(s)) THEN 0 ELSE 1 + SpaceRun(Tail(s))

RECURSIVE WordRun(_)
WordRun(s) == IF s = <<>> \/ IsSpace(Head(s)) THEN 0 ELSE 1 + WordRun(Tail(s))

\* /^\s*\S+(\s+)/.exec(line): <<match[1].length>>, or Null for no match
markerSpaces(line) ==
  LET afterIndent == trimLeft(line)
      word == WordRun(afterIndent)
      rest == SubSeq(afterIndent, word + 1, Len(afterIndent))
      spaces == SpaceRun(rest)
  IN IF word = 0 \/ spaces = 0 THEN Null ELSE <<spaces>>

\* forItem of MD030: [errors, raised]
RECURSIVE MD030Items(_, _, _, _)
MD030Items(items, n, expectedSpaces, errs) ==
  IF n > Len(items) THEN [errors |-> errs, raised |-> FALSE]
  ELSE LET match == markerSpaces(items[n].line)
       IN IF match = Null THEN [errors |-> errs, raised |-> TRUE]
          ELSE MD030Items(items, n + 1, expectedSpaces,
                 IF match[1] # expectedSpaces
                 THEN Append(errs, items[n].lineNumber) ELSE errs)

RECURSIVE MD030Loop(_, _, _, _)
MD030Loop(ls, n, opts, errs) ==
  IF n > Len(ls) THEN [errors |-> errs, raised |-> FALSE]
  ELSE LET list == ls[n]
           lineCount == list.lastLineIndex - list.open.lines[1]
           allSingle == lineCount = Len(list.items)
           expectedSpaces ==
             IF list.ordered
             THEN (IF allSingle THEN optionOr(opts, "ol_single", 1)
                   ELSE optionOr(opts, "ol_multi", 1))
             ELSE (IF allSingle THEN optionOr(opts, "ul_single", 1)
                   ELSE optionOr(opts, "ul_multi", 1))
           r == MD030Items(list.items, 1, expectedSpaces, errs)
       IN IF r.raised THEN r ELSE MD030Loop(ls, n + 1, opts, r.errors)

MD030func(p, opts) ==
  LET fl == flattenLists(p.tokens, Null)
  IN IF fl.raised THEN [errors |-> <<>>, raised |-> TRUE]
     ELSE MD030Loop(fl.lists, 1, opts, <<>>)

\* --------------------------------------------------------- forEachHeading
\* The calls of callback(heading, token.content), in order
RECURSIVE forEachHeadingLoop(_, _, _)
forEachHeadingLoop(tokens, n, heading) ==
  IF n > Len(tokens) THEN <<>>
  ELSE LET token == tokens[n]
       IN IF token.type = "heading_open"
          THEN forEachHeadingLoop(tokens, n + 1, <<token>>)
          ELSE IF token.type = "heading_close"
          THEN forEachHeadingLoop(tokens, n + 1, Null)
          ELSE IF token.type = "inline" /\ heading # Null
          THEN <<[heading |-> heading[1], content |-> token.content]>>
               \o forEachHeadingLoop(tokens, n + 1, heading)
          ELSE forEachHeadingLoop(tokens, n + 1, heading)

forEachHeading(p) == forEachHeadingLoop(p.tokens, 1, Null)

\* ------------------------------------------------------------------ MD001
RECURSIVE MD001Loop(_, _, _, _)
MD001Loop(hs, n, prevLevel, errs) ==
  IF n > Len(hs) THEN errs
  ELSE MD001Loop(hs, n + 1, hs[n].hLevel,
         IF prevLevel # 0 /\ hs[n].hLevel > prevLevel + 1
         THEN Append(errs, hs[n].lineNumber) ELSE errs)

MD001func(p) ==
  MD001Loop(filterTokens(p.tokens, "heading_open", "heading_open"), 1, 0, <<>>)

\* ------------------------------------------------------------------ MD002
MD002func(p) ==
  LET hs == filterTokens(p.tokens, "heading_open", "heading_open")
  IN IF hs # <<>> /\ hs[1].hLevel # 1 THEN <<hs[1].lineNumber>> ELSE <<>>

\* ------------------------------------------------------------------ MD022
\* content.split(shared.newLineRe)
RECURSIVE split(_, _)
split(content, acc) ==
  IF content = <<>> THEN <<acc>>
  ELSE IF Head(content) = "\n" THEN <<acc>> \o split(Tail(content), <<>>)
  ELSE split(Tail(content), Append(acc, Head(content)))

\* /^(-+|=+)\s*$/.test(line)
underlineRe(line) ==
  LET t == trimRight(line)
  IN /\ t # <<>>
     /\ \/ \A k \in DOMAIN t : t[k] = "-"
        \/ \A k \in DOMAIN t : t[k] = "="

\* forLine of MD022 over the lines of an inline token
RECURSIVE MD022Inline(_, _, _)
MD022Inline(token, ls, offset) ==
  IF offset >= Len(ls) THEN <<>>
  ELSE (IF underlineRe(ls[offset + 1]) THEN <<token.lines[1] + offset>>
        ELSE <<>>)
       \o MD022Inline(token, ls, offset + 1)

Max(a, b) == IF a > b THEN a ELSE b

\* forToken of MD022
MD022Step(st, token) ==
  LET st1 ==
        IF token.type = "heading_open"
        THEN [st EXCEPT
                !.errors = IF token.lines[1] - st.prevMaxLineIndex = 0
                           THEN Append(@, token.lineNumber) ELSE @,
                !.prevHeadingLineNumber = token.lineNumber]
        ELSE IF token.type = "heading_close"
        THEN [st EXCEPT !.needBlankLine = TRUE]
        ELSE IF token.type = "inline"
        THEN [st EXCEPT
                !.errors = @ \o MD022Inline(token, split(token.content, <<>>), 0)]
        ELSE st
  IN IF token.lines = Null THEN st1
     ELSE [st1 EXCEPT
             !.errors = IF st1.needBlankLine
                           /\ token.lines[1] - st1.prevMaxLineIndex = 0
                        THEN Append(@, st1.prevHeadingLineNumber) ELSE @,
             !.needBlankLine = FALSE,
             !.prevMaxLineIndex = Max(st1.prevMaxLineIndex, token.lines[2])]

RECURSIVE MD022Loop(_, _, _)
MD022Loop(tokens, n, st) ==
  IF n > Len(tokens) THEN st.errors
  ELSE MD022Loop(tokens, n + 1, MD022Step(st, tokens[n]))

MD022func(p) ==
  MD022Loop(p.tokens, 1,
            [prevHeadingLineNumber |-> 0, prevMaxLineIndex |-> -1,
             needBlankLine |-> FALSE, errors |-> <<>>])

\* ------------------------------------------------------------------ MD024
RECURSIVE MD024Loop(_, _, _, _)
MD024Loop(hs, n, knownContent, errs) ==
  IF n > Len(hs) THEN errs
  ELSE IF hs[n].content \notin knownContent
       THEN MD024Loop(hs, n + 1, knownContent \cup {hs[n].content}, errs)
       ELSE MD024Loop(hs, n + 1, knownContent,
                      Append(errs, hs[n].heading.lineNumber))

MD024func(p) == MD024Loop(forEachHeading(p), 1, {}, <<>>)

\* ------------------------------------------------------------------ MD025
\* MD025 taking the first level-1 heading as the top level heading wherever
\* it is
RECURSIVE MD025Loop_anyLine(_, _, _, _)
MD025Loop_anyLine(hs, n, hasTopLevelHeading, errs) ==
  IF n > Len(hs) THEN errs
  ELSE IF hs[n].hLevel = 1
       THEN IF hasTopLevelHeading
            THEN MD025Loop_anyLine(hs, n + 1, TRUE, Append(errs, hs[n].lineNumber))
            ELSE MD025Loop_anyLine(hs, n + 1, TRUE, errs)
       ELSE MD025Loop_anyLine(hs, n + 1, hasTopLevelHeading, errs)

MD025func_anyLine(p) ==
  MD025Loop_anyLine(filterTokens(p.tokens, "heading_open", "heading_open"),
                    1, FALSE, <<>>)

RECURSIVE MD025Loop(_, _, _, _)
MD025Loop(hs, n, hasTopLevelHeading, errs) ==
  IF n > Len(hs) THEN errs
  ELSE IF hs[n].hLevel = 1
       THEN IF hasTopLevelHeading
            THEN MD025Loop(hs, n + 1, TRUE, Append(errs, hs[n].lineNumber))
            ELSE MD025Loop(hs, n + 1, hs[n].lineNumber = 1, errs)
       ELSE MD025Loop(hs, n + 1, hasTopLevelHeading, errs)

MD025func(p) ==
  MD025Loop(filterTokens(p.tokens, "heading_open", "heading_open"),
            1, FALSE, <<>>)

\* ---------------------------------------------------------------- actions
\* Every action is one call by the driver with a fresh errors array: it leaves
\* params alone and records the rule, its options and what the call returned.
\* A behaviour holds one call (rule = "none" before it): a rule is a function
\* of params and options alone, so a call after another one returns what it
\* returns as the first.

\* A call of forEachLine with a callback that records its arguments
CallForEachLine ==
  /\ rule = "none"
  /\ calls' = forEachLine(params)
  /\ rule' = "forEachLine"
  /\ options' = <<>>
  /\ errors' = <<>>
  /\ raised' = FALSE
  /\ UNCHANGED <<params, lists>>

CallFlattenLists ==
  \E filterBy \in {Null, <<TRUE>>, <<FALSE>>} :
    LET fl == flattenLists(params.tokens, filterBy)
    IN /\ rule = "none"
       /\ lists' = fl.lists
       /\ raised' = fl.raised
       /\ rule' = "flattenLists"
       /\ options' = [filterBy |-> filterBy]
       /\ errors' = <<>>
       /\ UNCHANGED <<params, calls>>

\* params.options of a rule: each option absent (Null) or <<value>>, at most
\* one of them present
OptionsOf(names, values) ==
  {[o \in names |-> Null]}
    \cup {[o \in names |-> IF o = name THEN <<v>> ELSE Null] :
            name \in names, v \in values}

MD001 ==
  /\ rule = "none"
  /\ rule' = "MD001"
  /\ options' = <<>>
  /\ errors' = MD001func(params)
  /\ raised' = FALSE
  /\ UNCHANGED <<params, lists, calls>>

MD002 ==
  /\ rule = "none"
  /\ rule' = "MD002"
  /\ options' = <<>>
  /\ errors' = MD002func(params)
  /\ raised' = FALSE
  /\ UNCHANGED <<params, lists, calls>>

MD004 ==
  \E opts \in OptionsOf({"style"}, {"consistent", "dash", "plus", "asterisk"}) :
    LET r == MD004func(params, opts)
    IN /\ rule = "none"
       /\ rule' = "MD004"
       /\ options' = opts
       /\ errors' = r.errors
       /\ raised' = r.raised
       /\ UNCHANGED <<params, lists, calls>>

MD005 ==
  LET r == MD005func(params)
  IN /\ rule = "none"
     /\ rule' = "MD005"
     /\ options' = <<>>
     /\ errors' = r.errors
     /\ raised' = r.raised
     /\ UNCHANGED <<params, lists, calls>>

MD006 ==
  LET r == MD006func(params)
  IN /\ rule = "none"
     /\ rule' = "MD006"
     /\ options' = <<>>
     /\ errors' = r.errors
     /\ raised' = r.raised
     /\ UNCHANGED <<params, lists, calls>>

MD007 ==
  \E opts \in OptionsOf({"indent"}, {2, 4}) :
    LET r == MD007func(params, opts)
    IN /\ rule = "none"
       /\ rule' = "MD007"
       /\ options' = opts
       /\ errors' = r.errors
       /\ raised' = r.raised
       /\ UNCHANGED <<params, lists, calls>>

MD012 ==
  /\ rule = "none"
  /\ rule' = "MD012"
  /\ options' = <<>>
  /\ errors' = MD012func(params)
  /\ raised' = FALSE
  /\ UNCHANGED <<params, lists, calls>>

MD022 ==
  /\ rule = "none"
  /\ rule' = "MD022"
  /\ options' = <<>>
  /\ errors' = MD022func(params)
  /\ raised' = FALSE
  /\ UNCHANGED <<params, lists, calls>>

MD024 ==
  /\ rule = "none"
  /\ rule' = "MD024"
  /\ options' = <<>>
  /\ errors' = MD024func(params)
  /\ raised' = FALSE
  /\ UNCHANGED <<params, lists, calls>>

MD025 ==
  /\ rule = "none"
  /\ rule' = "MD025"
  /\ options' = <<>>
  /\ errors' = MD025func(params)
  /\ raised' = FALSE
  /\ UNCHANGED <<params, lists, calls>>

MD029 ==
  \E opts \in OptionsOf({"style"}, {"one", "ordered"}) :
    LET r == MD029func(params, opts)
    IN /\ rule = "none"
       /\ rule' = "MD029"
       /\ options' = opts
       /\ errors' = r.errors
       /\ raised' = r.raised
       /\ UNCHANGED <<params, lists, calls>>

MD030 ==
  \E opts \in OptionsOf({"ul_single", "ol_single", "ul_multi", "ol_multi"},
                        {2}) :
    LET r == MD030func(params, opts)
    IN /\ rule = "none"
       /\ rule' = "MD030"
       /\ options' = opts
       /\ errors' = r.errors
       /\ raised' = r.raised
       /\ UNCHANGED <<params, lists, calls>>

MD031 ==
  /\ rule = "none"
  /\ rule' = "MD031"
  /\ options' = <<>>
  /\ errors' = MD031func(params)
  /\ raised' = FALSE
  /\ UNCHANGED <<params, lists, calls>>

\* ----------------------------------------------------------- line inputs
FenceLine == <<BackTick, BackTick, BackTick>>
TildeLine == <<"~", "~", "~">>
IndentedLine == <<" ", " ", " ", " ", "a">>

\* Lines of the line-rule inputs
LineSet == {<<>>, <<" ">>, <<"a">>, FenceLine, TildeLine}

SeqsUpTo(S, n) == UNION {[1 .. k -> S] : k \in 0 .. n}

CodeBlock(s, e) == Tok("code_block", <<s, e>>, <<>>, 0, <<>>)

\* Token lists of at most MaxBlocks code_block tokens, in document order and
\* not overlapping, over a line array of n lines
BlockLists(n) ==
  {bs \in SeqsUpTo({CodeBlock(s, e) : s \in 0 .. n, e \in 0 .. n}, MaxBlocks) :
     /\ \A k \in DOMAIN bs : bs[k].lines[1] < bs[k].lines[2]
     /\ \A k \in DOMAIN bs : k > 1 => bs[k - 1].lines[2] <= bs[k].lines[1]}

InitResult ==
  /\ options = <<>>
  /\ rule = "none"
  /\ errors = <<>>
  /\ raised = FALSE
  /\ lists = <<>>
  /\ calls = <<>>

\* Any line array with any code_block tokens
InitLines ==
  /\ \E ls \in SeqsUpTo(LineSet, MaxLines) :
       \E bs \in BlockLists(Len(ls)) :
         params = [tokens |-> bs, lines |-> ls]
  /\ InitResult

\* A blank line or one indented by four spaces: what an indented code block
\* is made of
Indented(line) == StartsWith(line, <<" ", " ", " ", " ">>) /\ trim(line) # <<>>

\* Line arrays of a document together with the code_block tokens a tokenizer
\* can give for them: a block starts and ends on an indented line and holds
\* only indented and blank lines
InitFenced ==
  /\ \E ls \in SeqsUpTo(LineSet \cup {IndentedLine}, MaxLines) :
       \E bs \in BlockLists(Len(ls)) :
         /\ \A k \in DOMAIN bs :
              /\ Indented(ls[bs[k].lines[1] + 1])
              /\ Indented(ls[bs[k].lines[2]])
              /\ \A i \in bs[k].lines[1] + 1 .. bs[k].lines[2] :
                   Indented(ls[i]) \/ trim(ls[i]) = <<>>
         /\ params = [tokens |-> bs, lines |-> ls]
  /\ InitResult

\* ----------------------------------------------------------- list inputs
\* A document of list items, each [depth, ordered, text, extra]: the item's
\* nesting depth, its list's kind, its line without the indent, and the number
\* of continuation lines of its paragraph.  The first item is at depth 0 and an
\* item is at most one level deeper than the item before it.
ItemDocs(ItemSet, n) ==
  {items \in SeqsUpTo(ItemSet, n) :
     /\ items # <<>>
     /\ items[1].depth = 0
     /\ \A k \in 2 .. Len(items) : items[k].depth <= items[k - 1].depth + 1}

Indent(d) == [k \in 1 .. 2 * d |-> " "]

ItemLine(it) == Indent(it.depth) \o it.text

ContinuationLine(it) == Indent(it.depth + 1) \o <<"b">>

RECURSIVE DocLines(_, _)
DocLines(items, k) ==
  IF k > Len(items) THEN <<>>
  ELSE <<ItemLine(items[k])>>
       \o [j \in 1 .. items[k].extra |-> ContinuationLine(items[k])]
       \o DocLines(items, k + 1)

\* 0-based index of the first line of item k (and of the end of the document
\* for k = Len(items) + 1)
RECURSIVE StartLine(_, _)
StartLine(items, k) ==
  IF k = 1 THEN 0 ELSE StartLine(items, k - 1) + 1 + items[k - 1].extra

\* the least position of js, or the position after the last item
FirstOf(items, js) ==
  IF js = {} THEN Len(items) + 1 ELSE CHOOSE j \in js : \A i \in js : j <= i

ItemEnd(items, k) ==
  StartLine(items, FirstOf(items,
    {j \in k + 1 .. Len(items) : items[j].depth <= items[k].depth}))

ListEnd(items, k) ==
  StartLine(items, FirstOf(items,
    {j \in k + 1 .. Len(items) :
       \/ items[j].depth < items[k].depth
       \/ items[j].depth = items[k].depth
            /\ items[j].ordered # items[k].ordered}))

ListOpenType(ordered) ==
  IF ordered THEN "ordered_list_open" ELSE "bullet_list_open"

ListCloseType(ordered) ==
  IF ordered THEN "ordered_list_close" ELSE "bullet_list_close"

\* the close tokens of the lists open at depths keep+1 .. Len(stack), deepest
\* first; stack holds the kind of the list open at each depth
RECURSIVE CloseLists(_, _)
CloseLists(stack, keep) ==
  IF Len(stack) <= keep THEN <<>>
  ELSE <<Tok("list_item_close", Null, <<>>, 0, <<>>),
         Tok(ListCloseType(stack[Len(stack)]), Null, <<>>, 0, <<>>)>>
       \o CloseLists(SubSeq(stack, 1, Len(stack) - 1), keep)

ItemContent(it) == IF it.extra = 0 THEN <<"a">> ELSE <<"a", "\n", "b">>

\* The token list of the document, from item k on
RECURSIVE ListTokens(_, _, _)
ListTokens(items, k, stack) ==
  IF k > Len(items) THEN CloseLists(stack, 0)
  ELSE
    LET it == items[k]
        d == it.depth
        same == Len(stack) > d /\ stack[d + 1] = it.ordered
        keep == IF same THEN d + 1 ELSE d
        start == StartLine(items, k)
        line == ItemLine(it)
        para == <<start, start + 1 + it.extra>>
    IN CloseLists(stack, keep)
       \o (IF same THEN <<Tok("list_item_close", Null, <<>>, 0, <<>>)>>
           ELSE <<Tok(ListOpenType(it.ordered), <<start, ListEnd(items, k)>>,
                      line, 0, <<>>)>>)
       \o <<Tok("list_item_open", <<start, ItemEnd(items, k)>>, line, 0, <<>>),
            Tok("paragraph_open", para, line, 0, <<>>),
            Tok("inline", para, line, 0, ItemContent(it)),
            Tok("paragraph_close", Null, <<>>, 0, <<>>)>>
       \o ListTokens(items, k + 1,
                     SubSeq(stack, 1, d) \o <<it.ordered>>)

ListParams(items) ==
  [tokens |-> ListTokens(items, 1, <<>>), lines |-> DocLines(items, 1)]

Item(depth, ordered, text, extra) ==
  [depth |-> depth, ordered |-> ordered, text |-> text, extra |-> extra]

Bullet(c) == <<c, " ", "a">>

Numbered(n) == String(n) \o <<".", " ", "a">>

\* Nested lists of both kinds
FlattenItems ==
  {Item(d, o, IF o THEN Numbered(1) ELSE Bullet("-"), 0) :
     d \in 0 .. MaxDepth, o \in BOOLEAN}

InitFlatten ==
  /\ \E items \in ItemDocs(FlattenItems, MaxFlattenItems) :
       params = ListParams(items)
  /\ InitResult

SpecFlatten == InitFlatten /\ [][CallFlattenLists]_vars

\* Ordered items numbered 1, 2 or 3 and a bullet item, at two depths
OrderedItems ==
  {Item(d, TRUE, Numbered(n), 0) : d \in 0 .. 1, n \in 1 .. 3}
    \cup {Item(d, FALSE, Bullet("-"), 0) : d \in 0 .. 1}

InitOrdered ==
  /\ \E items \in ItemDocs(OrderedItems, MaxItems) : params = ListParams(items)
  /\ InitResult

SpecOrdered == InitOrdered /\ [][MD029]_vars

\* Bullet items of the three markers and an ordered item, at two depths
UnorderedItems ==
  {Item(d, FALSE, Bullet(c), 0) : d \in 0 .. 1, c \in {"-", "+", "*"}}
    \cup {Item(d, TRUE, Numbered(1), 0) : d \in 0 .. 1}

InitUnordered ==
  /\ \E items \in ItemDocs(UnorderedItems, MaxItems) :
       params = ListParams(items)
  /\ InitResult

SpecUnordered == InitUnordered /\ [][MD004]_vars

\* Items with one or two spaces after the marker, of one or two lines
SpacingItems ==
  {Item(d, FALSE, t, x) :
     d \in 0 .. 1, t \in {Bullet("-"), <<"-", " ", " ", "a">>}, x \in 0 .. 1}
    \cup {Item(d, TRUE, Numbered(1), x) : d \in 0 .. 1, x \in 0 .. 1}

InitSpacing ==
  /\ \E items \in ItemDocs(SpacingItems, MaxItems) : params = ListParams(items)
  /\ InitResult

SpecSpacing == InitSpacing /\ [][MD030]_vars

\* -------------------------------------------------------- heading inputs
\* A document of blocks, each [kind, level, text, gap]: an atx heading of a
\* level with its text, or a one-line paragraph, after gap blank lines
Block(kind, level, text, gap) ==
  [kind |-> kind, level |-> level, text |-> text, gap |-> gap]

HeadingBlocks ==
  {Block("heading", l, t, g) : l \in {1, 3}, t \in {<<"a">>, <<"-">>}, g \in 0 .. 1}
    \cup {Block("paragraph", 0, <<"a">>, g) : g \in 0 .. 1}

BlockLine(b) ==
  IF b.kind = "heading" THEN [k \in 1 .. b.level |-> "#"] \o <<" ">> \o b.text
  ELSE b.text

RECURSIVE BlockLines(_, _)
BlockLines(blocks, k) ==
  IF k > Len(blocks) THEN <<>>
  ELSE [j \in 1 .. blocks[k].gap |-> <<>>] \o <<BlockLine(blocks[k])>>
       \o BlockLines(blocks, k + 1)

\* 0-based index of the line of block k
RECURSIVE BlockStart(_, _)
BlockStart(blocks, k) ==
  IF k = 1 THEN blocks[1].gap
  ELSE BlockStart(blocks, k - 1) + 1 + blocks[k].gap

RECURSIVE BlockTokens(_, _)
BlockTokens(blocks, k) ==
  IF k > Len(blocks) THEN <<>>
  ELSE LET b == blocks[k]
           s == BlockStart(blocks, k)
           line == BlockLine(b)
       IN (IF b.kind = "heading"
           THEN <<Tok("heading_open", <<s, s + 1>>, line, b.level, <<>>),
                  Tok("inline", <<s, s + 1>>, line, 0, b.text),
                  Tok("heading_close", Null, <<>>, b.level, <<>>)>>
           ELSE <<Tok("paragraph_open", <<s, s + 1>>, line, 0, <<>>),
                  Tok("inline", <<s, s + 1>>, line, 0, b.text),
                  Tok("paragraph_close", Null, <<>>, 0, <<>>)>>)
          \o BlockTokens(blocks, k + 1)

InitHeadings ==
  /\ \E blocks \in SeqsUpTo(HeadingBlocks, MaxHeadingBlocks) :
       params = [tokens |-> BlockTokens(blocks, 1),
                 lines |-> BlockLines(blocks, 1)]
  /\ InitResult

NextHeadings == MD001 \/ MD002 \/ MD022 \/ MD024 \/ MD025

SpecHeadings == InitHeadings /\ [][NextHeadings]_vars

\* ------------------------------------------------------ degenerate inputs
DegenerateTypes ==
  {"bullet_list_open", "ordered_list_open", "bullet_list_close",
   "ordered_list_close", "list_item_open", "paragraph_open", "inline",
   "heading_open", "heading_close"}

\* the types nest: a list close matches the innermost open list, an item is
\* inside a list, a heading close follows its open, nothing is left open
RECURSIVE WellNested(_, _, _, _)
WellNested(types, n, open, heading) ==
  IF n > Len(types) THEN open = <<>> /\ ~heading
  ELSE LET t == types[n]
       IN IF t = "heading_open"
          THEN ~heading /\ WellNested(types, n + 1, open, TRUE)
          ELSE IF t = "heading_close"
          THEN heading /\ WellNested(types, n + 1, open, FALSE)
          ELSE IF heading
          THEN t = "inline" /\ WellNested(types, n + 1, open, heading)
          ELSE IF t \in {"bullet_list_open", "ordered_list_open"}
          THEN WellNested(types, n + 1, Append(open, t = "ordered_list_open"),
                          heading)
          ELSE IF t \in {"bullet_list_close", "ordered_list_close"}
          THEN /\ open # <<>>
               /\ open[Len(open)] = (t = "ordered_list_close")
               /\ WellNested(types, n + 1, SubSeq(open, 1, Len(open) - 1),
                             heading)
          ELSE IF t = "list_item_open"
          THEN open # <<>> /\ WellNested(types, n + 1, open, heading)
          ELSE WellNested(types, n + 1, open, heading)

\* The token at 1-based position n having the type t: it starts on line n, a
\* list line.  A close token has no lines.
DegenerateToken(t, n) ==
  Tok(t,
      IF t \in {"bullet_list_close", "ordered_list_close", "heading_close"}
      THEN Null ELSE <<n - 1, n>>,
      IF t = "heading_open" THEN <<"#", " ", "a">> ELSE Bullet("-"),
      IF t \in {"heading_open", "heading_close"} THEN 1 ELSE 0,
      IF t = "inline" THEN <<"a">> ELSE <<>>)

\* Token lists with lists of no item, lists closed before any token with a
\* line range, headings without inline body, and the empty document
InitDegenerate ==
  /\ \E types \in SeqsUpTo(DegenerateTypes, MaxDegenerateTokens) :
       /\ WellNested(types, 1, <<>>, FALSE)
       /\ params = [tokens |-> [n \in DOMAIN types |-> DegenerateToken(types[n], n)],
                    lines |-> [n \in DOMAIN types |->
                                 DegenerateToken(types[n], n).line]]
  /\ InitResult

NextLists == MD004 \/ MD005 \/ MD006 \/ MD007 \/ MD029 \/ MD030

NextDegenerate == CallFlattenLists \/ NextLists \/ NextHeadings

SpecDegenerate == InitDegenerate /\ [][NextDegenerate]_vars

\* Any rule on a document of list items or of headings and paragraphs
InitRules ==
  /\ \/ \E items \in ItemDocs(OrderedItems, MaxItems) : params = ListParams(items)
     \/ \E items \in ItemDocs(UnorderedItems, MaxItems) :
          params = ListParams(items)
     \/ \E blocks \in SeqsUpTo(HeadingBlocks, MaxHeadingBlocks) :
          params = [tokens |-> BlockTokens(blocks, 1),
                    lines |-> BlockLines(blocks, 1)]
  /\ InitResult

NextRules == NextLists \/ NextHeadings \/ MD012 \/ MD031

SpecRules == InitRules /\ [][NextRules]_vars

NextLines == CallForEachLine \/ MD012 \/ MD031

SpecLines == InitLines /\ [][NextLines]_vars

SpecFenced == InitFenced /\ [][NextLines]_vars

\* ================================================================= claims
ErrorSet == {errors[k] : k \in DOMAIN errors}

\* A fence delimiter line: three backticks or three tildes at its start
FenceDelimiter(line) ==
  /\ Len(line) >= 3
  /\ line[1] \in {BackTick, "~"}
  /\ line[2] = line[1]
  /\ line[3] = line[1]

\* The number of fence delimiter lines among the first n lines
FenceCount(n) ==
  Cardinality({j \in 1 .. n : FenceDelimiter(params.lines[j])})

\* The line at 1-based position n lies in the range of a code_block token
InCodeBlock(n) ==
  \E k \in DOMAIN params.tokens :
    /\ params.tokens[k].type = "code_block"
    /\ params.tokens[k].lines[1] <= n - 1
    /\ n - 1 < params.tokens[k].lines[2]

BalancedFences == FenceCount(Len(params.lines)) % 2 = 0

OpeningFence(n) == FenceDelimiter(params.lines[n]) /\ FenceCount(n) % 2 = 1

ClosingFence(n) == FenceDelimiter(params.lines[n]) /\ FenceCount(n) % 2 = 0

\* C2: forEachLine calls the callback once per line, in order, with in-code
\* flag = (fence state after the line's own toggle) OR (the line lies in a
\* code_block token's range); with balanced fences an opening fence line is
\* in-code with onFence, a closing fence line is onFence and in-code only if
\* it lies in a code_block range.
C2_InCodeAfterToggle ==
  rule = "forEachLine" =>
    /\ Len(calls) = Len(params.lines)
    /\ \A n \in DOMAIN calls :
         /\ calls[n].lineIndex = n - 1
         /\ calls[n].line = params.lines[n]
         /\ calls[n].onFence = FenceDelimiter(params.lines[n])
         /\ calls[n].inCode = (FenceCount(n) % 2 = 1 \/ InCodeBlock(n))
    /\ BalancedFences =>
         \A n \in DOMAIN calls :
           /\ OpeningFence(n) => calls[n].inCode /\ calls[n].onFence
           /\ ClosingFence(n) =>
                calls[n].onFence /\ (calls[n].inCode = InCodeBlock(n))

\* C2 witness: forEachLine ran on balanced fences with a closing fence outside
\* every code block and a line outside the fences inside a code block
C2_Witness ==
  /\ rule = "forEachLine"
  /\ BalancedFences
  /\ \E n \in DOMAIN calls : ClosingFence(n) /\ ~InCodeBlock(n) /\ ~calls[n].inCode
  /\ \E n \in DOMAIN calls : OpeningFence(n) /\ calls[n].inCode
  /\ \E n \in DOMAIN calls :
       FenceCount(n) % 2 = 0 /\ InCodeBlock(n) /\ calls[n].inCode

Blank(line) == \A k \in DOMAIN line : IsSpace(line[k])

OutsideCode(n) == FenceCount(n) % 2 = 0 /\ ~InCodeBlock(n)

\* Lines n, n+1, n+2 (1-indexed) are a run of exactly three blank lines outside
\* any code region, preceded by a non-blank line
BlankRun3(n) ==
  /\ n >= 2
  /\ n + 2 <= Len(params.lines)
  /\ ~Blank(params.lines[n - 1])
  /\ \A k \in n .. n + 2 : Blank(params.lines[k]) /\ OutsideCode(k)
  /\ n + 3 <= Len(params.lines) => ~Blank(params.lines[n + 3])

\* C4 as stated: of a run of exactly three blank lines n, n+1, n+2 MD012
\* reports only line n+2.
C4_OnlyLastOfRun ==
  rule = "MD012" =>
    \A n \in DOMAIN params.lines :
      BlankRun3(n) => ErrorSet \cap {n, n + 1, n + 2} = {n + 2}

\* C4 amended: of a run of exactly three blank lines n, n+1, n+2 MD012 reports
\* lines n+1 and n+2 (each the second of an adjacent blank pair), not line n.
C4_SecondOfEachPair ==
  rule = "MD012" =>
    \A n \in DOMAIN params.lines :
      BlankRun3(n) => ErrorSet \cap {n, n + 1, n + 2} = {n + 1, n + 2}

\* C4 witness: MD012 ran on a document with such a run
C4_Witness ==
  /\ rule = "MD012"
  /\ \E n \in DOMAIN params.lines : BlankRun3(n) /\ n + 2 \in ErrorSet

\* C5: with balanced fences MD031 reports an opening fence line iff the line
\* before it exists and is non-empty, and a closing fence line iff the line
\* after it exists and is non-empty.
C5_FenceNeighbours ==
  (rule = "MD031" /\ BalancedFences) =>
    /\ \A n \in DOMAIN params.lines :
         /\ OpeningFence(n) =>
              (n \in ErrorSet <=> (n > 1 /\ params.lines[n - 1] # <<>>))
         /\ ClosingFence(n) =>
              (n \in ErrorSet <=>
                 (n < Len(params.lines) /\ params.lines[n + 1] # <<>>))
    /\ \A e \in ErrorSet : FenceDelimiter(params.lines[e])

\* C5 witness: MD031 ran on a fenced block whose opening fence has an empty
\* line before and a non-empty line after, and whose closing fence has a
\* non-empty line before and is the last line; nothing is reported
C5_Witness ==
  /\ rule = "MD031"
  /\ BalancedFences
  /\ errors = <<>>
  /\ \E n \in DOMAIN params.lines :
       /\ OpeningFence(n) /\ n > 1 /\ n + 2 = Len(params.lines)
       /\ params.lines[n - 1] = <<>>
       /\ params.lines[n + 1] # <<>>
       /\ ClosingFence(n + 2)

\* ---- lists, read from the token list alone
Tokens == params.tokens

ListOpens == {k \in DOMAIN Tokens : IsListOpen(Tokens[k])}

ItemOpens == {k \in DOMAIN Tokens : Tokens[k].type = "list_item_open"}

\* For every token position the position of the open token of the innermost
\* list around it (0 outside every list; a list open token is inside the list
\* around its own list), by one scan with the stack of open lists
RECURSIVE EnclosingScan(_, _, _)
EnclosingScan(n, open, acc) ==
  IF n > Len(Tokens) THEN acc
  ELSE LET top == IF open = <<>> THEN 0 ELSE open[Len(open)]
       IN IF IsListOpen(Tokens[n])
          THEN EnclosingScan(n + 1, Append(open, n), Append(acc, top))
          ELSE IF IsListClose(Tokens[n])
          THEN EnclosingScan(n + 1, SubSeq(open, 1, Len(open) - 1),
                             Append(acc, top))
          ELSE EnclosingScan(n + 1, open, Append(acc, top))

Enclosing == EnclosingScan(1, <<>>, <<>>)

\* the list opened at position a contains the token at position b, given the
\* enclosing-list function
RECURSIVE Contains(_, _, _)
Contains(encl, a, b) ==
  b # 0 /\ encl[b] # 0 /\ (encl[b] = a \/ Contains(encl, a, encl[b]))

OrderedAt(a) == Tokens[a].type = "ordered_list_open"

\* the items of the list opened at position a, and the 1-based index of item k
\* among the items of its list
ItemsOf(encl, a) == {k \in ItemOpens : encl[k] = a}

IndexOf(encl, k) == Cardinality({j \in ItemsOf(encl, encl[k]) : j <= k})

\* the position of the open token of a descriptor
OpenPos(list) == CHOOSE k \in ListOpens : Tokens[k] = list.open

FilterOf(opts) == opts.filterBy

\* C1: the sequence flattenLists returns, for each filter value, lists each
\* descriptor before every descriptor of a list nested inside it and any two
\* lists not nested in one another in the order of their open tokens; it holds
\* exactly the lists the filter keeps.
C1_FlattenOrder ==
  rule = "flattenLists" =>
    /\ ~raised
    /\ {OpenPos(lists[i]) : i \in DOMAIN lists}
         = {k \in ListOpens : Keeps(FilterOf(options), OrderedAt(k))}
    /\ LET encl == Enclosing
           at == [i \in DOMAIN lists |-> OpenPos(lists[i])]
       IN \A i, j \in DOMAIN lists :
            /\ Contains(encl, at[i], at[j]) => i < j
            /\ (at[i] < at[j] /\ ~Contains(encl, at[i], at[j])) => i < j

\* C1 witness: a filtered flattening of a list with two nested lists followed
\* by a sibling list, all kept by the filter
C1_Witness ==
  /\ rule = "flattenLists"
  /\ FilterOf(options) # Null
  /\ Len(lists) >= 4
  /\ \E i, j, k \in DOMAIN lists :
       /\ Enclosing[OpenPos(lists[j])] = OpenPos(lists[i])
       /\ Enclosing[OpenPos(lists[k])] = OpenPos(lists[j])
  /\ \E i, j \in DOMAIN lists :
       /\ OpenPos(lists[i]) < OpenPos(lists[j])
       /\ ~Contains(Enclosing, OpenPos(lists[i]), OpenPos(lists[j]))

\* the line starts with optional whitespace followed by pre
HasPrefixAfterSpace(line, pre) ==
  \E w \in 0 .. Len(line) :
    /\ \A j \in 1 .. w : IsSpace(line[j])
    /\ w + Len(pre) <= Len(line)
    /\ \A j \in 1 .. Len(pre) : line[w + j] = pre[j]

Decimal(n) == CASE n = 1 -> <<"1">> [] n = 2 -> <<"2">> [] n = 3 -> <<"3">>
                [] n = 4 -> <<"4">> [] n = 5 -> <<"5">> [] OTHER -> <<"?">>

StyleOf(opts, default) == IF opts.style = Null THEN default ELSE opts.style[1]

\* C6: MD029 reports item i (1-based, among its own list's direct items) of an
\* ordered list iff its line does not start with optional whitespace followed
\* by "<expected>. ", expected being 1 under style "one" (the default) and i
\* under "ordered"; unordered items are never reported; 1.,1.,1. reports
\* nothing under "one" and items 2 and 3 under "ordered", 1.,2.,3. reports
\* nothing under "ordered".
C6_OrderedPrefix ==
  rule = "MD029" =>
    /\ ~raised
    /\ LET encl == Enclosing
       IN \A k \in ItemOpens :
            LET expected == IF StyleOf(options, "one") = "ordered"
                            THEN IndexOf(encl, k) ELSE 1
            IN Tokens[k].lineNumber \in ErrorSet <=>
                 /\ OrderedAt(encl[k])
                 /\ ~HasPrefixAfterSpace(Tokens[k].line,
                                         Decimal(expected) \o <<".", " ">>)
    /\ ErrorSet \subseteq {Tokens[k].lineNumber : k \in ItemOpens}
    /\ Len(errors) = Cardinality(ErrorSet)
    /\ params.lines = <<Numbered(1), Numbered(1), Numbered(1)>> =>
         errors = IF StyleOf(options, "one") = "ordered" THEN <<2, 3>> ELSE <<>>
    /\ (params.lines = <<Numbered(1), Numbered(2), Numbered(3)>>
          /\ StyleOf(options, "one") = "ordered") =>
         errors = <<>>

\* C6 witness: MD029 under style "ordered" on an ordered list with a nested
\* ordered list whose numbering restarts at 1, reporting nothing
C6_Witness ==
  /\ rule = "MD029"
  /\ StyleOf(options, "one") = "ordered"
  /\ errors = <<>>
  /\ \E k \in ItemOpens :
       /\ OrderedAt(Enclosing[k]) /\ IndexOf(Enclosing, k) = 2
       /\ \E j \in ItemOpens :
            /\ j < k /\ OrderedAt(Enclosing[j])
            /\ Enclosing[Enclosing[j]] = Enclosing[k]
            /\ IndexOf(Enclosing, j) = 1

\* the marker character of an item
MarkerOf(k) == Head(trimLeft(Tokens[k].line))

MarkerStyle(c) == CASE c = "-" -> "dash" [] c = "+" -> "plus" [] c = "*" -> "asterisk"
                    [] OTHER -> "none"

FirstItemOf(encl, a) ==
  CHOOSE k \in ItemsOf(encl, a) : \A j \in ItemsOf(encl, a) : k <= j

\* the items of unordered lists
BulletItems == LET encl == Enclosing IN {k \in ItemOpens : ~OrderedAt(encl[k])}

\* the first item of the first unordered list of the document
FirstBulletItem(items) == CHOOSE k \in items : \A j \in items : k <= j

\* MD004 with an explicit style reports an unordered item iff its marker is
\* not that style's, and never an ordered item
C10_ExplicitStyle ==
  LET items == BulletItems
  IN /\ ~raised
     /\ ErrorSet \subseteq {Tokens[k].lineNumber : k \in items}
     /\ StyleOf(options, "consistent") # "consistent" =>
          \A k \in items :
            Tokens[k].lineNumber \in ErrorSet <=>
              MarkerStyle(MarkerOf(k)) # StyleOf(options, "consistent")

\* C10 as stated: under style "consistent" MD004 reports an unordered item iff
\* its marker differs from the marker of the first item of its own list.
C10_FirstItemOfOwnList ==
  rule = "MD004" =>
    /\ C10_ExplicitStyle
    /\ StyleOf(options, "consistent") = "consistent" =>
         LET encl == Enclosing
         IN \A k \in BulletItems :
              Tokens[k].lineNumber \in ErrorSet <=>
                MarkerOf(k) # MarkerOf(FirstItemOf(encl, encl[k]))

\* C10 amended: under style "consistent" MD004 reports an unordered item iff
\* its marker differs from the marker of the first item of the first unordered
\* list of the document (the style stays fixed for every later list); with an
\* explicit style it reports an item iff its marker differs from that style.
C10_FirstItemOfDocument ==
  rule = "MD004" =>
    /\ C10_ExplicitStyle
    /\ StyleOf(options, "consistent") = "consistent" =>
         LET items == BulletItems
         IN \A k \in items :
              Tokens[k].lineNumber \in ErrorSet <=>
                MarkerOf(k) # MarkerOf(FirstBulletItem(items))

\* C10 witness: under "consistent", a later list whose items all use one
\* marker, different from the first list's, has its items reported
C10_Witness ==
  /\ rule = "MD004"
  /\ StyleOf(options, "consistent") = "consistent"
  /\ \E k \in BulletItems :
       /\ MarkerOf(k) # MarkerOf(FirstBulletItem(BulletItems))
       /\ \A j \in ItemsOf(Enclosing, Enclosing[k]) : MarkerOf(j) = MarkerOf(k)
       /\ Cardinality(ItemsOf(Enclosing, Enclosing[k])) >= 2
       /\ Tokens[k].lineNumber \in ErrorSet

\* the number of lines of an item's own paragraph (the token after its open)
OwnLines(k) == Tokens[k + 1].lines[2] - Tokens[k + 1].lines[1]

\* the whitespace characters after the marker of item k
SpacesAfterMarker(k) ==
  LET t == trimLeft(Tokens[k].line)
      m == CHOOSE i \in DOMAIN t : IsSpace(t[i]) /\ \A j \in 1 .. i - 1 : ~IsSpace(t[j])
  IN Cardinality({i \in m .. Len(t) : \A j \in m .. i : IsSpace(t[j])})

OptionValue(name) == IF options[name] = Null THEN 1 ELSE options[name][1]

\* C9: MD030 expects the *_single option of the list's kind exactly when every
\* item of the list occupies exactly one line, the *_multi option otherwise,
\* and reports an item iff its whitespace count differs from the expected one;
\* also for a list of one-line items that contains a nested list.
C9_SingleIffEveryItemOneLine ==
  rule = "MD030" =>
    /\ ~raised
    /\ \A k \in ItemOpens :
         LET a == Enclosing[k]
             allSingle == \A j \in ItemsOf(Enclosing, a) : OwnLines(j) = 1
             expected ==
               IF OrderedAt(a)
               THEN (IF allSingle THEN OptionValue("ol_single")
                     ELSE OptionValue("ol_multi"))
               ELSE (IF allSingle THEN OptionValue("ul_single")
                     ELSE OptionValue("ul_multi"))
         IN Tokens[k].lineNumber \in ErrorSet <=>
              SpacesAfterMarker(k) # expected

HeadingOpens == {k \in DOMAIN Tokens : Tokens[k].type = "heading_open"}

FirstHeading == CHOOSE k \in HeadingOpens : \A j \in HeadingOpens : k <= j

\* C7 as stated: MD025 reports a level-1 heading iff it is not the first
\* heading of the document and is not itself on line 1.
C7_NotFirstNotLine1 ==
  rule = "MD025" =>
    \A k \in HeadingOpens :
      Tokens[k].hLevel = 1 =>
        (Tokens[k].lineNumber \in ErrorSet <=>
           (k # FirstHeading /\ Tokens[k].lineNumber # 1))

\* C7 amended: MD025 reports a level-1 heading iff an earlier level-1 heading
\* is on line 1; a second level-1 heading is not reported when the first
\* level-1 heading is not on line 1.  No other heading is reported.
C7_AfterH1OnLine1 ==
  rule = "MD025" =>
    \A k \in HeadingOpens :
      Tokens[k].lineNumber \in ErrorSet <=>
        /\ Tokens[k].hLevel = 1
        /\ \E j \in HeadingOpens :
             j < k /\ Tokens[j].hLevel = 1 /\ Tokens[j].lineNumber = 1

\* C7 witness: MD025 ran on two level-1 headings, neither on line 1, and on
\* a later level-2 heading, and reported nothing
C7_Witness ==
  /\ rule = "MD025"
  /\ errors = <<>>
  /\ \E j, k \in HeadingOpens :
       /\ j < k
       /\ Tokens[j].hLevel = 1 /\ Tokens[j].lineNumber # 1
       /\ Tokens[k].hLevel = 1

\* C3: on every degenerate input (an empty document, a list with no item, a
\* list closed before any token with a line range, a heading with no inline
\* body) flattenLists, the rules that consume it and the heading rules
\* complete without raising.
C3_NeverRaises == ~raised

NonDecreasing(seq) == \A i \in 1 .. Len(seq) - 1 : seq[i] <= seq[i + 1]

ListWalkers == {"MD004", "MD005", "MD029", "MD030"}

\* the position of the list item on 1-based line e
ItemOnLine(e) == CHOOSE k \in ItemOpens : Tokens[k].lineNumber = e

\* no line of the content of an inline token is an underline of - or =
NoUnderlineContent ==
  \A k \in DOMAIN Tokens :
    Tokens[k].type = "inline" =>
      \A c \in DOMAIN Tokens[k].content : Tokens[k].content[c] \notin {"-", "="}

====
